---- MODULE Spec2Model ----
(***************************************************************************)
(* Model of the Ethereal Animator front-end:                               *)
(*   - GeminiVideoService.generateCinematicAnimation                       *)
(*     (src/services/geminiService.ts), the long-running job client;       *)
(*   - the App component (src/App.tsx), its state hooks and handlers.      *)
(* Every action is one JavaScript task: a handler or a callback runs from  *)
(* the event that starts it up to its next await.  The continuation of an  *)
(* async function that settles runs in the same task as the code that      *)
(* awaits it (microtasks), so the job step that settles the promise also   *)
(* runs the rest of triggerGeneration.                                     *)
(***************************************************************************)
EXTENDS Integers, Sequences, FiniteSets, TLC

(***************************************************************************)
(* Bounds of the model.                                                    *)
(***************************************************************************)
\* number of generateCinematicAnimation calls in one behaviour
MaxJobs == 2
\* number of not-done handles the service returns to the instrumented call
MaxNotDone == 7
\* number of not-done handles the service returns to the App's calls, in all
MaxNotDoneApp == 2
\* length, in tokens, of the message of an error the service raises
MaxMsgLen == 3
\* number of file reads that may be pending together
MaxPending == 1

JobIds == 1..MaxJobs

(***************************************************************************)
(* Optional values: null / undefined is the empty set, a value v is {v}.   *)
(***************************************************************************)
Null == {}
Some(v) == {v}
Val(o) == CHOOSE v \in o : TRUE

(***************************************************************************)
(* Strings that the code inspects are sequences of tokens, so that         *)
(* String.prototype.includes is a search and not an equality.              *)
(***************************************************************************)
Tokens == {"Requested ", "entity was not found", "API_KEY_RESET"}

RECURSIVE StringsUpTo(_)
StringsUpTo(n) ==
    IF n = 0 THEN {<< >>}
    ELSE LET shorter == StringsUpTo(n - 1)
         IN  shorter \cup {Append(s, t) : s \in shorter, t \in Tokens}

\* the messages of the errors the external service (or fetch) may raise;
\* Null is an error value that carries no message property
UpstreamMessages == {Null} \cup {Some(s) : s \in StringsUpTo(MaxMsgLen)}

\* s.includes(needle)
Includes(s, needle) ==
    \E i \in 0..(Len(s) - Len(needle)) :
        \A k \in 1..Len(needle) : s[i + k] = needle[k]

(***************************************************************************)
(* src/services/geminiService.ts                                           *)
(***************************************************************************)
MsgInitializing == "Initializing video generation engine..."
MsgCrafting == "Crafting visual physics and hair dynamics..."
MsgDownloading == "Downloading final high-fidelity export..."

loadingMessages ==
    << "Simulating mountain wind patterns...",
       "Rendering atmospheric particle depth...",
       "Polishing hair strand animations...",
       "Applying cinematic lighting passes...",
       "Finalizing realistic motion vectors...",
       "Almost ready for your vision..." >>

\* an index that stops at the last message instead of wrapping
LoadingMessage_NoWrap(messageIndex) ==
    loadingMessages[IF messageIndex < Len(loadingMessages)
                    THEN messageIndex + 1
                    ELSE Len(loadingMessages)]

\* loadingMessages[messageIndex % loadingMessages.length], 0-based index
LoadingMessage(messageIndex) ==
    loadingMessages[(messageIndex % Len(loadingMessages)) + 1]

ErrMissingUrl == << "Failed to retrieve generated video URL." >>
ErrFetchFailed == << "Failed to fetch the video data." >>
ErrApiKeyReset == << "API_KEY_RESET" >>

\* the argument of error.message?.includes(...) in the catch block
CredentialNeedle == << "Requested ", "entity was not found" >>

\* an Error value: its message is Null (no message) or Some(string)
NewError(msg) == [message |-> Some(msg)]
UpstreamErrors == {[message |-> m] : m \in UpstreamMessages}

\* a catch block that compares the whole message with the needle
CatchError_WholeMessage(err) ==
    IF err.message = Some(CredentialNeedle)
    THEN NewError(ErrApiKeyReset)
    ELSE err

\* a catch block that looks for "entity was not found" only
CatchError_ShortNeedle(err) ==
    IF err.message # Null /\ Includes(Val(err.message), << "entity was not found" >>)
    THEN NewError(ErrApiKeyReset)
    ELSE err

\* the catch block: the error that generateCinematicAnimation rethrows
CatchError(err) ==
    IF err.message # Null /\ Includes(Val(err.message), CredentialNeedle)
    THEN NewError(ErrApiKeyReset)
    ELSE err

(***************************************************************************)
(* Operation handles of the external service.  response, generatedVideos,  *)
(* video and uri are each optional, as in the SDK's types.                 *)
(***************************************************************************)
Uris == {"", "https://x/video123"}
Videos == {[video |-> Null]}
          \cup {[video |-> Some([uri |-> u])] : u \in {Null} \cup {Some(x) : x \in Uris}}
PlayableVideo == [video |-> Some([uri |-> Some("https://x/video123")])]
VideoLists == {<< >>} \cup {<<v>> : v \in Videos} \cup {<<[video |-> Null], PlayableVideo>>}
Responses == {Null, Some([generatedVideos |-> Null])}
             \cup {Some([generatedVideos |-> Some(l)]) : l \in VideoLists}

NotDoneHandle == [done |-> FALSE, response |-> Null]
DoneHandles == {[done |-> TRUE, response |-> r] : r \in Responses}

\* the uri of the last generated video instead of the first
DownloadLink_LastVideo(operation) ==
    IF operation.response = Null THEN Null
    ELSE LET generatedVideos == Val(operation.response).generatedVideos
         IN  IF generatedVideos = Null THEN Null
             ELSE IF Len(Val(generatedVideos)) = 0 THEN Null
             ELSE LET video == Val(generatedVideos)[Len(Val(generatedVideos))].video
                  IN  IF video = Null THEN Null ELSE Val(video).uri

\* operation.response?.generatedVideos?.[0]?.video?.uri
DownloadLink(operation) ==
    IF operation.response = Null THEN Null
    ELSE LET generatedVideos == Val(operation.response).generatedVideos
         IN  IF generatedVideos = Null THEN Null
             ELSE IF Len(Val(generatedVideos)) = 0 THEN Null
             ELSE LET video == Val(generatedVideos)[1].video
                  IN  IF video = Null THEN Null ELSE Val(video).uri

\* a test for undefined only, which lets the empty string through
Falsy_UndefinedOnly(str) == str = Null

\* !downloadLink : undefined and the empty string are falsy
Falsy(str) == str = Null \/ str = Some("")

(***************************************************************************)
(* One call of generateCinematicAnimation.  pc is the await the call is    *)
(* suspended at, operation and messageIndex are its local variables,       *)
(* result / thrown is how its promise settled.  out lists what the call    *)
(* did to the outside during the task that is running: the messages it     *)
(* passed to onStatusUpdate and the calls it issued (generateVideos,       *)
(* setTimeout, getVideosOperation, fetch, createObjectURL).                *)
(***************************************************************************)
IdleJob ==
    [pc |-> "idle", operation |-> Null, messageIndex |-> 0,
     result |-> Null, thrown |-> Null, out |-> << >>]

Did(job, kind, arg) == [job EXCEPT !.out = Append(@, [kind |-> kind, arg |-> arg])]

\* onStatusUpdate(msg)
OnStatusUpdate(job, msg) == Did(job, "onStatusUpdate", msg)

\* the call is over: its frame (operation, messageIndex) is gone
Settled(job) == [job EXCEPT !.pc = "settled", !.operation = Null, !.messageIndex = 0]

\* return URL.createObjectURL(blob) : the promise resolves
Return(job, url) ==
    [Settled(Did(job, "createObjectURL", url)) EXCEPT !.result = Some(url)]

\* a catch block that notes the error and lets the call go on
Throw_Swallowed(job, err) == [job EXCEPT !.thrown = Some(CatchError(err))]

\* a catch block that issues a failed poll once more before giving up
Throw_RetriesPoll(job, err) ==
    IF job.pc = "poll" /\ job.messageIndex < 2
    THEN Did(job, "getVideosOperation", job.operation)
    ELSE [Settled(job) EXCEPT !.thrown = Some(CatchError(err))]

\* an exception inside the try block: caught, remapped, rethrown
Throw(job, err) == [Settled(job) EXCEPT !.thrown = Some(CatchError(err))]

\* lines 16-27: the call up to the await of generateVideos
CallGenerate(job) ==
    [Did(OnStatusUpdate(job, MsgInitializing), "generateVideos", Null)
        EXCEPT !.pc = "submit"]

\* the loop test, without the message of line 68
LoopTest_NoDownloadingMessage(job, operation) ==
    LET held == [job EXCEPT !.operation = Some(operation)]
    IN  IF ~operation.done
        THEN [Did(held, "setTimeout", 10000) EXCEPT !.pc = "wait"]
        ELSE IF Falsy(DownloadLink(operation))
             THEN Throw(held, NewError(ErrMissingUrl))
             ELSE [Did(held, "fetch", DownloadLink(operation))
                      EXCEPT !.pc = "download"]

\* a loop that waits once before it tests the handle (do ... while)
LoopTest_WaitsFirst(job, operation) ==
    LET held == [job EXCEPT !.operation = Some(operation)]
    IN  IF ~operation.done \/ job.messageIndex = 0
        THEN [Did(held, "setTimeout", 10000) EXCEPT !.pc = "wait"]
        ELSE IF Falsy(DownloadLink(operation))
             THEN Throw(held, NewError(ErrMissingUrl))
             ELSE [Did(OnStatusUpdate(held, MsgDownloading),
                       "fetch", DownloadLink(operation))
                      EXCEPT !.pc = "download"]

\* a loop that polls again at once, without the 10 s wait
LoopTest_BusyPoll(job, operation) ==
    LET held == [job EXCEPT !.operation = Some(operation)]
    IN  IF ~operation.done
        THEN [Did(OnStatusUpdate(held, LoadingMessage(held.messageIndex)),
                  "getVideosOperation", held.operation)
                 EXCEPT !.messageIndex = @ + 1, !.pc = "poll"]
        ELSE IF Falsy(DownloadLink(operation))
             THEN Throw(held, NewError(ErrMissingUrl))
             ELSE [Did(OnStatusUpdate(held, MsgDownloading),
                       "fetch", DownloadLink(operation))
                      EXCEPT !.pc = "download"]

\* a wait whose promise is never resolved: new Promise(resolve =>
\* setTimeout(10000)) does not hand resolve to the timer
LoopTest_TimerNeverResolves(job, operation) ==
    LET held == [job EXCEPT !.operation = Some(operation)]
    IN  IF ~operation.done
        THEN [Did(held, "setTimeout", 10000) EXCEPT !.pc = "never"]
        ELSE IF Falsy(DownloadLink(operation))
             THEN Throw(held, NewError(ErrMissingUrl))
             ELSE [Did(OnStatusUpdate(held, MsgDownloading),
                       "fetch", DownloadLink(operation))
                      EXCEPT !.pc = "download"]

\* lines 53-69: the loop test with the handle just received, and what
\* follows it up to the next await
LoopTest(job, operation) ==
    LET held == [job EXCEPT !.operation = Some(operation)]
    IN  IF ~operation.done
        THEN [Did(held, "setTimeout", 10000) EXCEPT !.pc = "wait"]
        ELSE IF Falsy(DownloadLink(operation))
             THEN Throw(held, NewError(ErrMissingUrl))
             ELSE [Did(OnStatusUpdate(held, MsgDownloading),
                       "fetch", DownloadLink(operation))
                      EXCEPT !.pc = "download"]

\* generateVideos answered, without the message of line 41
AfterSubmit_NoCrafting(job, operation) == LoopTest(job, operation)

\* lines 27-41: generateVideos answered with a handle
AfterSubmit(job, operation) ==
    LoopTest(OnStatusUpdate(job, MsgCrafting), operation)

\* a loop body that issues the poll twice without awaiting the first
AfterWait_PollsTwice(job) ==
    [Did(Did(OnStatusUpdate(job, LoadingMessage(job.messageIndex)),
             "getVideosOperation", job.operation),
         "getVideosOperation", job.operation)
        EXCEPT !.messageIndex = @ + 1, !.pc = "poll"]

\* lines 54-60: the 10 s timer fired
AfterWait(job) ==
    [Did(OnStatusUpdate(job, LoadingMessage(job.messageIndex)),
         "getVideosOperation", job.operation)
        EXCEPT !.messageIndex = @ + 1, !.pc = "poll"]

\* lines 60-61: getVideosOperation answered with a handle
AfterPoll(job, operation) == LoopTest(job, operation)

\* the fetch answered, without the test of response.ok
AfterFetch_IgnoresStatus(job, ok, url) == Return(job, url)

\* lines 69-75: the fetch answered
AfterFetch(job, ok, url) ==
    IF ~ok THEN Throw(job, NewError(ErrFetchFailed)) ELSE Return(job, url)

(***************************************************************************)
(* src/App.tsx : the state of the App component                            *)
(***************************************************************************)
VARIABLES
    image,          \* useState<ImagePreview | null>
    videoUrl,       \* useState<string | null>
    status,         \* useState<GenerationStep>
    statusMessage,  \* useState<string>
    error,          \* useState<string | null>
    hasKey,         \* useState<boolean>
    keyCheck,       \* checkApiKey of the mount effect: "pending" or "done"
    selecting,      \* an openSelectKey dialog is open
    reading,        \* FileReader reads not yet ended
    jobs,           \* the calls of generateCinematicAnimation, by call number
    notDone,        \* not-done handles the service has returned so far
    log             \* what an instrumented call was answered and did

vars == << image, videoUrl, status, statusMessage, error, hasKey,
           keyCheck, selecting, reading, jobs, notDone, log >>

ui == << image, videoUrl, status, statusMessage, error, hasKey >>

\* src/types.ts : enum GenerationStep
GenerationStep ==
    {"IDLE", "INITIALIZING", "UPLOADING", "GENERATING", "FETCHING", "COMPLETED", "ERROR"}

Files == {"portrait.png"}

PromptReselect ==
    << "Your API key session expired or is invalid. Please select a valid key." >>
DefaultError ==
    << "An unexpected error occurred during animation generation." >>

\* a call that was started and whose promise is not settled yet
InFlight(j) == jobs[j].pc \in {"submit", "wait", "poll", "download"}

(***************************************************************************)
(* What the external service and the network may answer: the handles of    *)
(* finished operations, the errors they raise, and how many not-done       *)
(* handles they return in all.  An instrumented world also records in log  *)
(* what the call was answered and what it did.                             *)
(***************************************************************************)
Instrumented ==
    [logs |-> TRUE, done |-> DoneHandles, errors |-> UpstreamErrors,
     notDone |-> MaxNotDone]

PlayableHandle ==
    [done |-> TRUE, response |-> Some([generatedVideos |-> Some(<<PlayableVideo>>)])]

\* the answers the whole App is run against: one playable handle, an error
\* that the catch block remaps and one that it rethrows
App ==
    [logs |-> FALSE, done |-> {PlayableHandle},
     errors |-> {NewError(CredentialNeedle), NewError(<<"entity was not found">>)},
     notDone |-> MaxNotDoneApp]

\* the handles the service may answer with; not-done ones are bounded
Handles(world) ==
    world.done \cup (IF notDone < world.notDone THEN {NotDoneHandle} ELSE {})

Init ==
    /\ image = Null
    /\ videoUrl = Null
    /\ status = "IDLE"
    /\ statusMessage = ""
    /\ error = Null
    /\ hasKey = FALSE
    /\ keyCheck = "pending"
    /\ selecting = FALSE
    /\ reading = 0
    /\ jobs = [j \in JobIds |-> IdleJob]
    /\ notDone = 0
    /\ log = << >>

(***************************************************************************)
(* Credential check and selection (lines 28-49).                           *)
(***************************************************************************)
CheckApiKeyReturns ==
    /\ keyCheck = "pending"
    /\ keyCheck' = "done"
    /\ \E selected \in BOOLEAN : hasKey' = selected
    /\ UNCHANGED << image, videoUrl, status, statusMessage, error,
                    selecting, reading, jobs, notDone, log >>

CheckApiKeyThrows ==
    /\ keyCheck = "pending"
    /\ keyCheck' = "done"
    /\ UNCHANGED << ui, selecting, reading, jobs, notDone, log >>

\* the two "select key" buttons are rendered only while !hasKey; the
\* selection dialog is modal
HandleSelectKey ==
    /\ ~hasKey
    /\ ~selecting
    /\ selecting' = TRUE
    /\ UNCHANGED << ui, keyCheck, reading, jobs, notDone, log >>

SelectKeyReturns ==
    /\ selecting
    /\ selecting' = FALSE
    /\ hasKey' = TRUE
    /\ UNCHANGED << image, videoUrl, status, statusMessage, error,
                    keyCheck, reading, jobs, notDone, log >>

SelectKeyThrows ==
    /\ selecting
    /\ selecting' = FALSE
    /\ UNCHANGED << ui, keyCheck, reading, jobs, notDone, log >>

(***************************************************************************)
(* Image upload (lines 51-69); the file input is inside the hasKey panel.  *)
(***************************************************************************)
HandleImageUpload ==
    /\ hasKey
    /\ reading < MaxPending
    /\ reading' = reading + 1
    /\ UNCHANGED << ui, keyCheck, selecting, jobs, notDone, log >>

\* reader.onloadend with a result
ReaderLoadEnd ==
    /\ reading > 0
    /\ reading' = reading - 1
    /\ \E file \in Files : image' = Some(file)
    /\ videoUrl' = Null
    /\ error' = Null
    /\ UNCHANGED << status, statusMessage, hasKey, keyCheck, selecting,
                    jobs, notDone, log >>

\* reader.onloadend after a failed read: result is null, split throws
ReaderLoadFails ==
    /\ reading > 0
    /\ reading' = reading - 1
    /\ UNCHANGED << ui, keyCheck, selecting, jobs, notDone, log >>

(***************************************************************************)
(* triggerGeneration (lines 71-96), reset (98-104), clear result (320).    *)
(***************************************************************************)
\* a Generate button that is rendered outside the hasKey panel
GenerateEnabled_OutsidePanel ==
    /\ image # Null
    /\ status \in {"IDLE", "ERROR", "COMPLETED"}

\* the Generate button is rendered in the hasKey panel and is not disabled
GenerateEnabled ==
    /\ hasKey
    /\ image # Null
    /\ status \in {"IDLE", "ERROR", "COMPLETED"}

\* a catch block that shows the prompt and leaves hasKey as it is
AwaitResumes_KeepsKey(job) ==
    IF job.result # Null
    THEN /\ videoUrl' = job.result
         /\ status' = "COMPLETED"
         /\ UNCHANGED << error, hasKey >>
    ELSE LET err == Val(job.thrown)
         IN  /\ error' = IF err.message = Some(ErrApiKeyReset)
                         THEN Some(PromptReselect)
                         ELSE IF err.message = Null \/ err.message = Some(<< >>)
                              THEN Some(DefaultError)
                              ELSE err.message
             /\ status' = "ERROR"
             /\ UNCHANGED << videoUrl, hasKey >>

\* lines 84-95: the rest of triggerGeneration once the awaited call settled
AwaitResumes(job) ==
    IF job.result # Null
    THEN /\ videoUrl' = job.result
         /\ status' = "COMPLETED"
         /\ UNCHANGED << error, hasKey >>
    ELSE LET err == Val(job.thrown)
         IN  /\ IF err.message = Some(ErrApiKeyReset)
                THEN /\ hasKey' = FALSE
                     /\ error' = Some(PromptReselect)
                ELSE /\ hasKey' = hasKey
                     /\ error' = IF err.message = Null \/ err.message = Some(<< >>)
                                 THEN Some(DefaultError)
                                 ELSE err.message
             /\ status' = "ERROR"
             /\ UNCHANGED videoUrl

\* the messages a task of the call passed to onStatusUpdate
Messages(out) ==
    LET IsMessage(e) == e.kind = "onStatusUpdate"
        picked == SelectSeq(out, IsMessage)
    IN  [i \in 1..Len(picked) |-> picked[i].arg]

\* how the promise of a settled call settled, as the harness sees it
Outcome(job) ==
    IF job.pc # "settled" THEN << >>
    ELSE (IF job.result # Null THEN <<[kind |-> "resolved", arg |-> job.result]>> ELSE << >>)
         \o (IF job.thrown # Null THEN <<[kind |-> "rejected", arg |-> job.thrown]>> ELSE << >>)

\* the instrumentation: the input of a task, what the call did in it, and
\* the outcome if the task settled the promise
Record(world, input, job) ==
    IF world.logs THEN log \o input \o job.out \o Outcome(job) ELSE log

\* operation and messageIndex kept as fields of the singleton instance:
\* what the running call writes, every other call in flight reads
JobStep_InstanceFields(j, input, job, world) ==
    /\ jobs' = [k \in JobIds |->
                  IF k = j THEN [job EXCEPT !.out = << >>]
                  ELSE IF InFlight(k) /\ job.pc # "settled"
                       THEN [jobs[k] EXCEPT !.operation = job.operation,
                                            !.messageIndex = job.messageIndex]
                       ELSE jobs[k]]
    /\ statusMessage' = IF Messages(job.out) # << >>
                        THEN Messages(job.out)[Len(Messages(job.out))]
                        ELSE statusMessage
    /\ IF job.pc = "settled"
       THEN AwaitResumes(job)
       ELSE UNCHANGED << videoUrl, status, error, hasKey >>
    /\ log' = Record(world, input, job)
    /\ UNCHANGED << image, keyCheck, selecting, reading >>

\* The task of call j that input starts ends with the call as job: the
\* messages reach (msg) => setStatusMessage(msg), and a settled promise
\* resumes triggerGeneration.
JobStep(j, input, job, world) ==
    /\ jobs' = [jobs EXCEPT ![j] = [job EXCEPT !.out = << >>]]
    /\ statusMessage' = IF Messages(job.out) # << >>
                        THEN Messages(job.out)[Len(Messages(job.out))]
                        ELSE statusMessage
    /\ IF job.pc = "settled"
       THEN AwaitResumes(job)
       ELSE UNCHANGED << videoUrl, status, error, hasKey >>
    /\ log' = Record(world, input, job)
    /\ UNCHANGED << image, keyCheck, selecting, reading >>

\* the click on the Generate button: the call is the next unused one
TriggerGeneration(world) ==
    /\ GenerateEnabled
    /\ image # Null
    /\ \E j \in JobIds :
        /\ jobs[j].pc = "idle"
        /\ \A i \in JobIds : i < j => jobs[i].pc # "idle"
        /\ status' = "INITIALIZING"
        /\ error' = Null
        /\ LET job == CallGenerate(jobs[j])
           IN  /\ jobs' = [jobs EXCEPT ![j] = [job EXCEPT !.out = << >>]]
               /\ statusMessage' = Messages(job.out)[Len(Messages(job.out))]
               /\ log' = Record(world, << >>, job)
    /\ UNCHANGED << image, videoUrl, hasKey, keyCheck, selecting, reading, notDone >>

\* the reset button is rendered whenever an image is loaded
Reset ==
    /\ hasKey
    /\ image # Null
    /\ image' = Null
    /\ videoUrl' = Null
    /\ status' = "IDLE"
    /\ error' = Null
    /\ UNCHANGED << statusMessage, hasKey, keyCheck, selecting, reading,
                    jobs, notDone, log >>

\* the "Clear Result" button is rendered whenever a video is shown
ClearResult ==
    /\ hasKey
    /\ videoUrl # Null
    /\ videoUrl' = Null
    /\ UNCHANGED << image, status, statusMessage, error, hasKey,
                    keyCheck, selecting, reading, jobs, notDone, log >>

(***************************************************************************)
(* The external service and the browser answer the awaits of call j.       *)
(***************************************************************************)
Answer(kind, arg) == << [kind |-> kind, arg |-> arg] >>

SubmitReturns(j, world) ==
    /\ jobs[j].pc = "submit"
    /\ \E operation \in Handles(world) :
        /\ JobStep(j, Answer("handle", operation),
                   AfterSubmit(jobs[j], operation), world)
        /\ notDone' = IF operation.done THEN notDone ELSE notDone + 1

SubmitThrows(j, world) ==
    /\ jobs[j].pc = "submit"
    /\ \E err \in world.errors :
        JobStep(j, Answer("error", err), Throw(jobs[j], err), world)
    /\ UNCHANGED notDone

TimerFires(j, world) ==
    /\ jobs[j].pc = "wait"
    /\ JobStep(j, Answer("timeout", 10000), AfterWait(jobs[j]), world)
    /\ UNCHANGED notDone

PollReturns(j, world) ==
    /\ jobs[j].pc = "poll"
    /\ \E operation \in Handles(world) :
        /\ JobStep(j, Answer("handle", operation),
                   AfterPoll(jobs[j], operation), world)
        /\ notDone' = IF operation.done THEN notDone ELSE notDone + 1

PollThrows(j, world) ==
    /\ jobs[j].pc = "poll"
    /\ \E err \in world.errors :
        JobStep(j, Answer("error", err), Throw(jobs[j], err), world)
    /\ UNCHANGED notDone

\* fetch answered; with an ok status the blob is read and wrapped in an
\* object URL (call j's, named j)
FetchReturns(j, world) ==
    /\ jobs[j].pc = "download"
    /\ \E ok \in BOOLEAN :
        JobStep(j, Answer("response", ok), AfterFetch(jobs[j], ok, j), world)
    /\ UNCHANGED notDone

\* fetch (or response.blob()) rejected
FetchThrows(j, world) ==
    /\ jobs[j].pc = "download"
    /\ \E err \in world.errors :
        JobStep(j, Answer("error", err), Throw(jobs[j], err), world)
    /\ UNCHANGED notDone

(***************************************************************************)
(* Spec: the App component, its user and the service.                      *)
(***************************************************************************)
Next ==
    \/ CheckApiKeyReturns
    \/ CheckApiKeyThrows
    \/ HandleSelectKey
    \/ SelectKeyReturns
    \/ SelectKeyThrows
    \/ HandleImageUpload
    \/ ReaderLoadEnd
    \/ ReaderLoadFails
    \/ TriggerGeneration(App)
    \/ Reset
    \/ ClearResult
    \/ \E j \in JobIds : SubmitReturns(j, App)
    \/ \E j \in JobIds : SubmitThrows(j, App)
    \/ \E j \in JobIds : TimerFires(j, App)
    \/ \E j \in JobIds : PollReturns(j, App)
    \/ \E j \in JobIds : PollThrows(j, App)
    \/ \E j \in JobIds : FetchReturns(j, App)
    \/ \E j \in JobIds : FetchThrows(j, App)

Spec == Init /\ [][Next]_vars

(***************************************************************************)
(* ClientSpec: one call of generateCinematicAnimation, made by the Generate*)
(* button once a key is selected and an image is loaded, in an             *)
(* instrumented world.                                                     *)
(***************************************************************************)
ClientInit ==
    /\ image = Some("portrait.png")
    /\ videoUrl = Null
    /\ status = "IDLE"
    /\ statusMessage = ""
    /\ error = Null
    /\ hasKey = TRUE
    /\ keyCheck = "done"
    /\ selecting = FALSE
    /\ reading = 0
    /\ jobs = [j \in JobIds |-> IdleJob]
    /\ notDone = 0
    /\ log = << >>

FirstCall ==
    /\ jobs[1].pc = "idle"
    /\ TriggerGeneration(Instrumented)

ClientNext ==
    \/ FirstCall
    \/ SubmitReturns(1, Instrumented)
    \/ SubmitThrows(1, Instrumented)
    \/ TimerFires(1, Instrumented)
    \/ PollReturns(1, Instrumented)
    \/ PollThrows(1, Instrumented)
    \/ FetchReturns(1, Instrumented)
    \/ FetchThrows(1, Instrumented)

ClientSpec == ClientInit /\ [][ClientNext]_vars

\* ClientSpec with a service, a network and an event loop that eventually
\* answer: every await of the call is eventually resumed (a timer fires,
\* a request is answered), and the service returns not-done handles only
\* a bounded number of times (Handles).
ClientFairSpec == ClientSpec /\ WF_vars(ClientNext)

(***************************************************************************)
(* Properties.  Those of one call are stated on log, under ClientSpec.     *)
(***************************************************************************)
Logged(kind) == SelectSeq(log, LAMBDA e : e.kind = kind)
Count(kind) == Len(Logged(kind))

\* the handles the call received, from generateVideos and getVideosOperation
HandlesReceived == [i \in 1..Count("handle") |-> Logged("handle")[i].arg]

\* the promise of the instrumented call has settled
Ended == Count("resolved") + Count("rejected") > 0

\* the call was rejected with an error of this message
RejectedWith(msg) ==
    \E i \in 1..Len(log) :
        /\ log[i].kind = "rejected"
        /\ Val(log[i].arg).message = Some(msg)

\* entry i of log is an error raised by generateVideos or getVideosOperation
SubmitOrPollError(i) ==
    /\ i > 1
    /\ log[i].kind = "error"
    /\ log[i - 1].kind \in {"generateVideos", "getVideosOperation"}

Range(seq) == {seq[i] : i \in 1..Len(seq)}

\* submit answers not done, the single poll answers done with a result URI,
\* and the download succeeds
EndToEnd ==
    /\ Len(HandlesReceived) = 2
    /\ ~HandlesReceived[1].done
    /\ HandlesReceived[2].done
    /\ HandlesReceived[2] = PlayableHandle
    /\ Count("resolved") = 1

\* C1, as stated: in the end-to-end run onStatusUpdate is called exactly
\* three times: initializing, one flavor message, downloading.
C1_ThreeMessages ==
    EndToEnd =>
        /\ Len(Messages(log)) = 3
        /\ Messages(log)[1] = MsgInitializing
        /\ Messages(log)[2] \in Range(loadingMessages)
        /\ Messages(log)[3] = MsgDownloading

\* C1, amended: in the end-to-end run onStatusUpdate is called exactly four
\* times: initializing, "Crafting visual physics and hair dynamics...",
\* the first flavor message, downloading.
C1_FourMessages ==
    EndToEnd =>
        Messages(log) = << "Initializing video generation engine...",
                           "Crafting visual physics and hair dynamics...",
                           "Simulating mountain wind patterns...",
                           "Downloading final high-fidelity export..." >>

C1_Witness == EndToEnd /\ jobs[1].pc = "settled" /\ videoUrl = Some(1)

\* C2, as stated: an error of submit or of a poll whose message contains
\* "entity was not found" ends the call with API_KEY_RESET.
C2_ShortSubstring ==
    \A i \in 1..Len(log) :
        ( /\ SubmitOrPollError(i)
          /\ log[i].arg.message # Null
          /\ Includes(Val(log[i].arg.message), << "entity was not found" >>) )
        => RejectedWith(<< "API_KEY_RESET" >>)

\* C2, amended: an error of submit or of a poll whose message contains
\* "Requested entity was not found" anywhere in it ends the call with
\* API_KEY_RESET, whatever else the message contains.
C2_RequestedSubstring ==
    \A i \in 1..Len(log) :
        ( /\ SubmitOrPollError(i)
          /\ log[i].arg.message # Null
          /\ Includes(Val(log[i].arg.message),
                      << "Requested ", "entity was not found" >>) )
        => /\ RejectedWith(<< "API_KEY_RESET" >>)
           /\ Count("rejected") = 1
           /\ Count("resolved") = 0

\* a poll raised a message that holds more than the substring
C2_Witness ==
    \E i \in 1..Len(log) :
        /\ SubmitOrPollError(i)
        /\ log[i - 1].kind = "getVideosOperation"
        /\ log[i].arg.message =
              Some(<< "API_KEY_RESET", "Requested ", "entity was not found" >>)
        /\ RejectedWith(<< "API_KEY_RESET" >>)
        /\ ~hasKey

\* C3: at most one call of generateCinematicAnimation is in flight.
C3_AtMostOneInFlight == Cardinality({j \in JobIds : InFlight(j)}) <= 1

\* C4, as stated: every call that ended has called onStatusUpdate at least
\* twice, with the initializing and with the downloading message.
C4_AlwaysTwoMessages ==
    Ended =>
        /\ Len(Messages(log)) >= 2
        /\ Messages(log)[1] = MsgInitializing
        /\ MsgDownloading \in Range(Messages(log))

\* C4, amended: every call first calls onStatusUpdate with the initializing
\* message and then issues the submission; a call that reaches the download
\* calls it with the downloading message right before the one fetch, so it
\* has called it at least twice whatever the number of polls; a call that
\* ends without a fetch never emits the downloading message.
C4_InitializingAndBeforeFetch ==
    /\ jobs[1].pc # "idle" =>
          /\ log[1].kind = "onStatusUpdate"
          /\ log[1].arg = "Initializing video generation engine..."
          /\ log[2].kind = "generateVideos"
    /\ \A i \in 1..Len(log) :
          log[i].kind = "fetch" =>
              /\ log[i - 1].kind = "onStatusUpdate"
              /\ log[i - 1].arg = "Downloading final high-fidelity export..."
    /\ Count("fetch") > 0 => Len(Messages(log)) >= 2
    /\ Count("fetch") = 0 =>
          "Downloading final high-fidelity export..." \notin Range(Messages(log))

C4_Witness == Ended /\ Count("fetch") = 1 /\ Count("timeout") = 2

\* the not-done handles the call received
NotDoneReceived ==
    Cardinality({i \in 1..Len(HandlesReceived) : ~HandlesReceived[i].done})

DoneReceived == \E i \in 1..Len(HandlesReceived) : HandlesReceived[i].done

\* C5: a call whose operation is reported not done N times and then done
\* waits exactly N intervals of 10 s, and each wait that elapsed is followed
\* by exactly one poll: waits = polls = N.
C5_WaitsEqualPolls ==
    /\ Count("setTimeout") = NotDoneReceived
    /\ \A i \in 1..Count("setTimeout") : Logged("setTimeout")[i].arg = 10000
    /\ Count("getVideosOperation") = Count("timeout")
    /\ \A i \in 1..Len(log) :
          log[i].kind = "timeout" =>
              /\ i + 2 <= Len(log)
              /\ log[i + 1].kind = "onStatusUpdate"
              /\ log[i + 2].kind = "getVideosOperation"
    /\ DoneReceived =>
          /\ Count("timeout") = NotDoneReceived
          /\ Count("getVideosOperation") = NotDoneReceived

C5_Witness == DoneReceived /\ NotDoneReceived = 3 /\ Ended

\* C6: the message emitted before the k-th poll (k from 0) is element
\* k mod 6 of the six-string list: the index starts at 0, advances by one
\* per poll, and poll 6 emits message 0 again.
C6_FlavorCycle ==
    /\ Len(loadingMessages) = 6
    /\ \A i \in 1..Len(log) :
          log[i].kind = "getVideosOperation" =>
              LET k == Len(SelectSeq(SubSeq(log, 1, i - 1),
                                     LAMBDA e : e.kind = "getVideosOperation"))
              IN  /\ log[i - 1].kind = "onStatusUpdate"
                  /\ log[i - 1].arg = loadingMessages[(k % 6) + 1]
    /\ Len(SelectSeq(Messages(log), LAMBDA m : m \in Range(loadingMessages)))
          = Count("getVideosOperation")

\* seven polls were issued, and the message before the seventh is message 0
C6_Witness ==
    /\ Count("getVideosOperation") = 7
    /\ log[Len(log)].kind = "getVideosOperation"
    /\ log[Len(log) - 1].arg = "Simulating mountain wind patterns..."

\* the handle that generateVideos returned is already done
DoneAtOnce == Len(HandlesReceived) >= 1 /\ HandlesReceived[1].done

\* C7, as stated: when the operation is done at the first test the call
\* waits zero times and emits only the initializing and the downloading
\* message.
C7_TwoMessagesOnly ==
    (DoneAtOnce /\ Ended) =>
        /\ Count("setTimeout") = 0
        /\ Count("timeout") = 0
        /\ Range(Messages(log)) \subseteq {MsgInitializing, MsgDownloading}

\* C7, amended: when the handle returned by the submit call is already
\* done, the call waits zero times, polls zero times, emits no flavor
\* message, and emits the initializing message, then "Crafting visual
\* physics and hair dynamics...", then (if it reaches the download) the
\* downloading message.
C7_NoWaitThreeMessages ==
    DoneAtOnce =>
        /\ Count("setTimeout") = 0
        /\ Count("timeout") = 0
        /\ Count("getVideosOperation") = 0
        /\ Messages(log) =
              << "Initializing video generation engine...",
                 "Crafting visual physics and hair dynamics..." >>
              \o (IF Count("fetch") = 1
                  THEN << "Downloading final high-fidelity export..." >>
                  ELSE << >>)

C7_Witness == DoneAtOnce /\ Count("resolved") = 1 /\ status = "COMPLETED"

\* the result list is absent or empty, or its first item has no video URI
NoPlayableReference(operation) ==
    \/ operation.response = Null
    \/ Val(operation.response).generatedVideos = Null
    \/ Val(Val(operation.response).generatedVideos) = << >>
    \/ Val(Val(operation.response).generatedVideos)[1].video = Null
    \/ Val(Val(Val(operation.response).generatedVideos)[1].video).uri = Null

\* C8: a done operation without a playable reference ends the call with
\* "Failed to retrieve generated video URL." and with no other error, the
\* downloading message is not emitted and no fetch is issued.
C8_MissingArtifact ==
    \A i \in 1..Len(log) :
        ( /\ log[i].kind = "handle"
          /\ log[i].arg.done
          /\ NoPlayableReference(log[i].arg) )
        => /\ RejectedWith(<< "Failed to retrieve generated video URL." >>)
           /\ Count("rejected") = 1
           /\ Count("resolved") = 0
           /\ "Downloading final high-fidelity export..." \notin Range(Messages(log))
           /\ Count("fetch") = 0
           /\ Count("createObjectURL") = 0

\* after one poll the operation is done, its first item has no video and
\* its second item has one
C8_Witness ==
    /\ Len(HandlesReceived) = 2
    /\ HandlesReceived[2] =
          [done |-> TRUE,
           response |-> Some([generatedVideos |->
                                Some(<<[video |-> Null], PlayableVideo>>)])]
    /\ RejectedWith(ErrMissingUrl)
    /\ error = Some(ErrMissingUrl)

\* C9: a download that answers with a non-success status ends the call
\* with "Failed to fetch the video data.", no object URL is created or
\* returned, and the App's videoUrl is not set.
C9_DownloadFailed ==
    \A i \in 1..Len(log) :
        (log[i].kind = "response" /\ ~log[i].arg)
        => /\ RejectedWith(<< "Failed to fetch the video data." >>)
           /\ Count("rejected") = 1
           /\ Count("resolved") = 0
           /\ Count("createObjectURL") = 0
           /\ jobs[1].result = Null
           /\ videoUrl = Null
           /\ status = "ERROR"

C9_Witness ==
    /\ Count("response") = 1
    /\ ~Logged("response")[1].arg
    /\ Count("timeout") = 1
    /\ error = Some(ErrFetchFailed)

\* C10: a call that ends produces exactly one outcome, a result or an
\* error and never both, and nothing (no onStatusUpdate call in
\* particular) follows the outcome.
C10_OneOutcomeLast ==
    /\ Count("resolved") + Count("rejected") <= 1
    /\ jobs[1].result = Null \/ jobs[1].thrown = Null
    /\ (jobs[1].result # Null \/ jobs[1].thrown # Null) <=> jobs[1].pc = "settled"
    /\ jobs[1].pc = "settled" <=> Ended
    /\ Ended => log[Len(log)].kind \in {"resolved", "rejected"}
    /\ Count("resolved") = 1 => jobs[1].result # Null
    /\ Count("rejected") = 1 => jobs[1].thrown # Null

C10_Witness ==
    /\ Count("rejected") = 1
    /\ Count("timeout") = 2
    /\ log[Len(log)].kind = "rejected"
    /\ Len(Messages(log)) = 4

\* the network calls of a job and the entries that answer them
NetworkCalls == {"generateVideos", "getVideosOperation", "fetch"}
NetworkAnswers == {"handle", "error", "response"}

\* the network calls issued and not yet answered after entry i of log
Unanswered(i) ==
    Len(SelectSeq(SubSeq(log, 1, i), LAMBDA e : e.kind \in NetworkCalls))
    - Len(SelectSeq(SubSeq(log, 1, i), LAMBDA e : e.kind \in NetworkAnswers))

\* the positions before i at which the call received a handle
HandlesBefore(i) == {k \in 1..(i - 1) : log[k].kind = "handle"}

\* the position of the handle received last before entry i
LastHandleBefore(i) ==
    CHOOSE k \in HandlesBefore(i) : \A m \in HandlesBefore(i) : m <= k

\* C11: the network calls of a job are totally ordered: the submit is the
\* first call and is answered before the first poll; each poll is issued
\* only after the previous call returned a handle, and is issued for that
\* handle; the download is issued only after a handle with done = true;
\* two network calls of the job are never in flight together.
C11_CallsInSequence ==
    /\ \A i \in 1..Len(log) : Unanswered(i) \in {0, 1}
    /\ Count("generateVideos") <= 1
    /\ \A i \in 1..Len(log) :
          log[i].kind \in {"getVideosOperation", "fetch"} =>
              /\ Len(SelectSeq(SubSeq(log, 1, i), LAMBDA e : e.kind = "generateVideos")) = 1
              /\ HandlesBefore(i) # {}
              /\ \A k \in LastHandleBefore(i)..(i - 1) :
                    log[k].kind \notin (NetworkCalls \cup {"error", "response"})
    /\ \A i \in 1..Len(log) :
          log[i].kind = "getVideosOperation" =>
              /\ ~log[LastHandleBefore(i)].arg.done
              /\ log[i].arg = Some(log[LastHandleBefore(i)].arg)
    /\ \A i \in 1..Len(log) :
          log[i].kind = "fetch" => log[LastHandleBefore(i)].arg.done

\* two polls, then the download, each answered before the next
C11_Witness ==
    /\ Count("getVideosOperation") = 2
    /\ Count("fetch") = 1
    /\ Count("response") = 1
    /\ Count("resolved") = 1

\* entry i of log is a failure: a call raised an error, the download
\* answered with a non-success status, or a done handle has no video URI
Failure(i) ==
    \/ log[i].kind = "error"
    \/ log[i].kind = "response" /\ ~log[i].arg
    \/ /\ log[i].kind = "handle"
       /\ log[i].arg.done
       /\ \/ NoPlayableReference(log[i].arg)
          \/ Val(Val(Val(log[i].arg.response).generatedVideos)[1].video).uri = Some("")

\* C12: every error is terminal and nothing is retried: once submit, a
\* poll or the download has failed, or the artifact is missing, the call
\* issues no further submit, poll, wait or download and emits no further
\* progress message: the error is returned at once.  (A handle returned
\* by submit is examined on line 63, after the message of line 41.)
C12_ErrorsAreTerminal ==
    \A i \in 1..Len(log) :
        Failure(i) =>
            LET rest == SubSeq(log, i + 1, Len(log))
            IN  /\ jobs[1].pc = "settled"
                /\ \/ Len(rest) = 1 /\ rest[1].kind = "rejected"
                   \/ /\ log[i].kind = "handle"
                      /\ log[i - 1].kind = "generateVideos"
                      /\ Len(rest) = 2
                      /\ rest[1] = [kind |-> "onStatusUpdate",
                                    arg |-> "Crafting visual physics and hair dynamics..."]
                      /\ rest[2].kind = "rejected"

\* the second poll raised an error and the call ended with it
C12_Witness ==
    /\ Count("getVideosOperation") = 2
    /\ log[Len(log) - 1].kind = "error"
    /\ log[Len(log) - 2].kind = "getVideosOperation"
    /\ log[Len(log)].kind = "rejected"
    /\ status = "ERROR"

\* the object URLs that were passed to URL.revokeObjectURL: neither
\* geminiService.ts nor App.tsx calls it, in any handler
Revoked == {}

\* the object URLs that calls of generateCinematicAnimation returned
ObjectUrls == {Val(jobs[j].result) : j \in {i \in JobIds : jobs[i].result # Null}}

\* C13: every object URL a call returned is released once it is no longer
\* displayed: no returned URL is both unreleased and not displayed
\* (after clear result, reset, a new upload, or a replacement).
C13_ReleasedOnceNotDisplayed ==
    \A url \in ObjectUrls : videoUrl = Some(url) \/ url \in Revoked

\* C14: with a service that eventually answers every call and eventually
\* reports done or raises an error, a call that was started eventually
\* ends; there is no timeout and no cancellation, so the call ends only
\* after a done handle or an error and never on a not-done answer.
C14_EndsWhenServiceAnswers ==
    /\ (jobs[1].pc # "idle") ~> (jobs[1].pc = "settled")
    /\ [](Ended => (DoneReceived \/ Count("error") > 0))
    /\ [](\A i \in 1..Len(log) :
             (log[i].kind = "handle" /\ ~log[i].arg.done) =>
                 (i < Len(log) /\ log[i + 1].kind \notin {"resolved", "rejected"}))

\* the service answered not done as often as it may, and the call ended
\* once it answered done
C14_Witness ==
    /\ NotDoneReceived = 7
    /\ DoneReceived
    /\ Count("timeout") = 7
    /\ jobs[1].pc = "settled"

\* entry i of log is an error of submit or of a poll whose message does
\* not contain "Requested entity was not found"
UnmatchedError(i) ==
    /\ SubmitOrPollError(i)
    /\ ~ ( /\ log[i].arg.message # Null
           /\ Includes(Val(log[i].arg.message),
                       << "Requested ", "entity was not found" >>) )

\* C15, as stated: an error of submit or of a poll whose message does not
\* match the credential substring reaches the caller unchanged, and the App
\* then shows that message with status ERROR and leaves hasKey unchanged.
C15_ShownUnchanged ==
    \A i \in 1..Len(log) :
        UnmatchedError(i) =>
            /\ log[Len(log)] = [kind |-> "rejected", arg |-> Some(log[i].arg)]
            /\ error = log[i].arg.message
            /\ status = "ERROR"
            /\ hasKey

\* C15, amended: such an error reaches the caller unchanged and the App
\* sets status ERROR; it shows the error's message and leaves hasKey
\* unchanged, except that for an empty or absent message it shows "An
\* unexpected error occurred during animation generation." and that a
\* message that is exactly "API_KEY_RESET" is handled as an invalid
\* credential (hasKey false, the re-selection prompt).
C15_ShownOrFallback ==
    \A i \in 1..Len(log) :
        UnmatchedError(i) =>
            /\ log[Len(log)] = [kind |-> "rejected", arg |-> Some(log[i].arg)]
            /\ status = "ERROR"
            /\ videoUrl = Null
            /\ IF log[i].arg.message = Some(<< "API_KEY_RESET" >>)
               THEN /\ ~hasKey
                    /\ error = Some(<< "Your API key session expired or is invalid. Please select a valid key." >>)
               ELSE /\ hasKey
                    /\ error =
                         IF log[i].arg.message \in {Null, Some(<< >>)}
                         THEN Some(<< "An unexpected error occurred during animation generation." >>)
                         ELSE log[i].arg.message

\* a poll raised "entity was not found", which the App shows as it is
C15_Witness ==
    \E i \in 1..Len(log) :
        /\ UnmatchedError(i)
        /\ log[i - 1].kind = "getVideosOperation"
        /\ log[i].arg.message = Some(<< "entity was not found" >>)
        /\ error = Some(<< "entity was not found" >>)
        /\ status = "ERROR"
        /\ hasKey

\* call j ends in this step with the API_KEY_RESET error
EndsCredentialInvalid(j) ==
    /\ InFlight(j)
    /\ jobs'[j].pc = "settled"
    /\ jobs'[j].thrown = Some(NewError(<< "API_KEY_RESET" >>))

\* hasKey is set to true by the step that ends checkApiKey or by the step
\* that ends handleSelectKey's openSelectKey
KeySetByCheckOrSelection ==
    \/ keyCheck = "pending" /\ keyCheck' = "done"
    \/ selecting /\ ~selecting'

\* C16: when a call ends with API_KEY_RESET, right after the outcome is
\* handled hasKey is false, status is ERROR and the error text is the
\* re-selection prompt; hasKey becomes true again only through checkApiKey
\* or handleSelectKey.
C16_InvalidatesCredential ==
    [][ /\ \A j \in JobIds :
              EndsCredentialInvalid(j) =>
                  /\ ~hasKey'
                  /\ status' = "ERROR"
                  /\ error' = Some(<< "Your API key session expired or is invalid. Please select a valid key." >>)
        /\ (~hasKey /\ hasKey') => KeySetByCheckOrSelection ]_vars

\* a call ended with API_KEY_RESET, and a key was selected again afterwards
C16_Witness ==
    /\ jobs[1].thrown = Some(NewError(ErrApiKeyReset))
    /\ error = Some(PromptReselect)
    /\ status = "ERROR"
    /\ hasKey
    /\ jobs[2].pc = "idle"

\* C17: a call issues at most one download fetch, and exactly one when it
\* succeeds; the fetch is issued only after the downloading message, and
\* only for the non-empty URI of a handle that is done.
C17_OneDownload ==
    /\ Count("fetch") <= 1
    /\ Count("resolved") = 1 => (Count("fetch") = 1 /\ Count("response") = 1)
    /\ \A i \in 1..Len(log) :
          log[i].kind = "fetch" =>
              LET operation == log[LastHandleBefore(i)].arg
                  uri == Val(Val(Val(operation.response).generatedVideos)[1].video).uri
              IN  /\ Messages(SubSeq(log, 1, i))[Len(Messages(SubSeq(log, 1, i)))]
                        = "Downloading final high-fidelity export..."
                  /\ operation.done
                  /\ ~NoPlayableReference(operation)
                  /\ uri # Some("")
                  /\ log[i].arg = uri

\* after three polls the one fetch was issued and answered, and the call
\* returned the object URL
C17_Witness ==
    /\ Count("getVideosOperation") = 3
    /\ Count("fetch") = 1
    /\ Logged("fetch")[1].arg = Some("https://x/video123")
    /\ Count("resolved") = 1
    /\ videoUrl = Some(1)

\* call j is in flight and was abandoned by reset(): status is IDLE only
\* from reset() on, until triggerGeneration sets INITIALIZING again
Abandoned(j) == InFlight(j) /\ status = "IDLE"

\* C18: the completion or failure of a call that reset() abandoned leaves
\* the App as reset left it: status IDLE, videoUrl null, error null.
C18_ResetDiscardsResult ==
    [][ \A j \in JobIds :
            (Abandoned(j) /\ videoUrl = Null /\ error = Null /\ jobs'[j].pc = "settled")
            => (status' = "IDLE" /\ videoUrl' = Null /\ error' = Null) ]_vars

\* the steps of status that the claim lists
ListedTransitions ==
    ({"IDLE", "COMPLETED", "ERROR"} \X {"INITIALIZING"})
    \cup ({"INITIALIZING"} \X {"COMPLETED", "ERROR"})
    \cup ({"IDLE", "INITIALIZING", "COMPLETED", "ERROR"} \X {"IDLE"})

\* C19: status takes only IDLE, INITIALIZING, COMPLETED and ERROR, and
\* changes only from IDLE, COMPLETED or ERROR to INITIALIZING, from
\* INITIALIZING to COMPLETED or ERROR, and from any of them to IDLE.
C19_StatusTransitions ==
    [][ /\ status' \in {"IDLE", "INITIALIZING", "COMPLETED", "ERROR"}
        /\ status' # status => << status, status' >> \in ListedTransitions ]_vars

\* call j is submitted in this step
Submits(j) == jobs[j].pc = "idle" /\ jobs'[j].pc = "submit"

\* some call has ended with the API_KEY_RESET error
CredentialInvalidSeen ==
    \E j \in JobIds : jobs[j].thrown = Some(NewError(<< "API_KEY_RESET" >>))

\* C20, as stated: a call is submitted only in a state where an image is
\* loaded and hasKey is true, and after a call ended with API_KEY_RESET
\* only a credential selection sets hasKey back to true.
C20_OnlyAfterSelection ==
    [][ /\ \A j \in JobIds : Submits(j) => (image # Null /\ hasKey)
        /\ (CredentialInvalidSeen /\ ~hasKey /\ hasKey')
              => (selecting /\ ~selecting') ]_vars

\* C20, amended: a call is submitted only in a state where an image is
\* loaded and hasKey is true; hasKey, false after a call ended with
\* API_KEY_RESET, is set back to true only by a credential selection or by
\* the checkApiKey of the mount effect when that is still pending.
C20_OnlyWithImageAndKey ==
    [][ /\ \A j \in JobIds : Submits(j) => (image # Null /\ hasKey)
        /\ (CredentialInvalidSeen /\ ~hasKey /\ hasKey')
              => (selecting /\ ~selecting') \/ (keyCheck = "pending" /\ keyCheck' = "done") ]_vars

\* the first call ended with API_KEY_RESET, a key was selected again, and
\* a second call is submitted
C20_Witness ==
    /\ jobs[1].thrown = Some(NewError(ErrApiKeyReset))
    /\ jobs[2].pc = "submit"
    /\ hasKey
    /\ image # Null
    /\ status = "INITIALIZING"

\* the step changes the frame (pc, operation, messageIndex) of call j
FrameChanges(j) == jobs'[j] # jobs[j]

\* C21: the singleton carries no per-call state.  When calls overlap each
\* keeps its own operation handle and its own messageIndex: a step of one
\* call leaves every other call's frame as it was; a call's handle is
\* replaced only by its own submit or poll answer, and it polls and
\* downloads with a handle it holds; its messageIndex is 0 when it is
\* submitted and advances by one in its own timer step only, and the
\* flavor message of that step is the one at the call's own index.
C21_NoSharedJobState ==
    [][ \/ jobs' = jobs
        \/ \A j \in JobIds :
             FrameChanges(j) =>
               /\ \A k \in JobIds \ {j} : ~FrameChanges(k)
               /\ Submits(j) => (jobs'[j].messageIndex = 0 /\ jobs'[j].operation = Null)
               /\ (InFlight(j) /\ jobs'[j].operation # jobs[j].operation) =>
                     \/ jobs[j].pc \in {"submit", "poll"} /\ jobs'[j].operation # Null
                     \/ jobs'[j].pc = "settled"
               /\ jobs'[j].pc \in {"wait", "poll", "download"} => jobs'[j].operation # Null
               /\ (InFlight(j) /\ jobs'[j].messageIndex # jobs[j].messageIndex) =>
                     \/ /\ jobs[j].pc = "wait"
                        /\ jobs'[j].pc = "poll"
                        /\ jobs'[j].messageIndex = jobs[j].messageIndex + 1
                     \/ jobs'[j].pc = "settled"
               /\ (jobs[j].pc = "wait" /\ jobs'[j].pc = "poll") =>
                     /\ jobs'[j].messageIndex = jobs[j].messageIndex + 1
                     /\ jobs'[j].operation = jobs[j].operation
                     /\ statusMessage' = loadingMessages[(jobs[j].messageIndex % 6) + 1] ]_vars

\* two calls overlap; the first has issued its first poll for the not-done
\* handle it holds, the second has just issued its own first poll with the
\* first flavor message
C21_Witness ==
    /\ jobs[1].pc = "poll"
    /\ jobs[1].messageIndex = 1
    /\ jobs[1].operation = Some(NotDoneHandle)
    /\ jobs[2].pc = "poll"
    /\ jobs[2].messageIndex = 1
    /\ statusMessage = "Simulating mountain wind patterns..."

====
